---- MODULE Spec2Model ----
(***************************************************************************)
(* A model of backup-tool: the deduplication controller (initial_backup    *)
(* and differential_backup of src/src/main.rs), the chunk & pack engine    *)
(* (write_bak_files) and the index database (src/src/db.rs).               *)
(*                                                                         *)
(* Paths are small integers ordered as PathBuf orders relative paths,      *)
(* bytes are small integers and a file's content is a sequence of bytes.   *)
(* The 16-byte BLAKE3 prefix is modelled by an injective numbering of      *)
(* byte strings (collision resistance is assumed, not checked).            *)
(* The source directory does not change during a run: the size of a file   *)
(* entry is the length of the content that is hashed and packed later.     *)
(* The table `index` is a list of rows: its schema (index.sql) is not in   *)
(* src/, and the scanner yields every path once.                           *)
(***************************************************************************)
EXTENDS Integers, Sequences, FiniteSets, TLC

VARIABLES
    pc,               \* position of the main thread
    mode,             \* "initial" | "differential" (ctx.last_index is None | Some)
    args,             \* ARGS: [chunk_size, backup_size, ref_index, backup_output_filter]
    disk,             \* source directory: path -> content
    files,            \* index_files(): Vec<FileEntry> in scan order
    old_index,        \* rows of the reference index (differential mode)
    duplicates,       \* Vec<(&FileEntry, Hash)>
    remaining,        \* Vec<&FileEntry> that missed the metadata tier
    file_hash_list,   \* initial mode: hash of files[k]
    files_to_backup,  \* Vec<(Hash, &FileEntry)> handed to write_bak_files
    hashed,           \* paths whose content compute_file_hash has read
    w,                \* the frame of write_bak_files and the bak files it wrote
    db_index,         \* rows of table `index` of the new index database
    db_chunk,         \* rows of table chunk of the new index database
    committed,        \* the transaction on the new index database is committed
    bak_io,           \* per bak: its file, its BufWriter, its filter child and drain thread
    main,             \* position of the main thread inside the chunk loop and the writer
    ranges,           \* the Vec<Range> a call of chunks_ranges returned
    out_dir           \* names of the files of the output directory other than the baks

\* the variables of the pack writer's I/O, of the call of chunks_ranges and of
\* the output directory
ext_vars == <<bak_io, main, ranges, out_dir>>

vars == <<pc, mode, args, disk, files, old_index, duplicates, remaining,
          file_hash_list, files_to_backup, hashed, w, db_index, db_chunk, committed,
          bak_io, main, ranges, out_dir>>

----------------------------------------------------------------------------
(* Bounds of the model *)

\* number of paths of the source directory in initial mode
MaxFiles == 3
\* number of paths of the source directory and of the reference in differential mode
MaxDiffFiles == 2
\* largest file size and largest chunk size handed to a call of chunks_ranges
MaxFileSize == 12
MaxChunkSize == 8
\* capacity in bytes of a pipe between the main thread, a filter and its drain
PipeCap == 1

Paths == 1..MaxFiles
DiffPaths == 1..MaxDiffFiles

\* file contents of the source directory
Contents == {<<>>, <<1>>, <<1, 2>>, <<2, 1>>, <<1, 2, 1>>}
\* file contents of a differential run and of the snapshot the reference describes
DiffContents == {<<>>, <<1, 2>>, <<2, 1>>}
RefContents == {<<1, 2>>, <<2, 1>>}
\* mtime of a reference row: 0 (the file was touched since) or 1 (unchanged)
RefMtimes == {0, 1}

\* (--chunk-size, --backup-size); the last one has backup-size < chunk-size
Configs == {[chunk_size |-> 1, backup_size |-> 2],
            [chunk_size |-> 2, backup_size |-> 2],
            [chunk_size |-> 2, backup_size |-> 3],
            [chunk_size |-> 2, backup_size |-> 1]}
DiffConfigs == {[chunk_size |-> 1, backup_size |-> 2],
                [chunk_size |-> 2, backup_size |-> 3]}

----------------------------------------------------------------------------
(* Helpers on sequences *)

Range(s) == {s[k] : k \in DOMAIN s}

RECURSIVE SumSeq(_)
SumSeq(s) == IF s = <<>> THEN 0 ELSE s[1] + SumSeq(Tail(s))

RECURSIVE Flatten(_)
Flatten(ss) == IF ss = <<>> THEN <<>> ELSE ss[1] \o Flatten(Tail(ss))

\* injective sequences over S of length at most n
InjSeqs(S, n) ==
    UNION {{s \in [1..k -> S] : \A a, b \in 1..k : a # b => s[a] # s[b]} : k \in 0..n}

----------------------------------------------------------------------------
(* lib.rs *)

RECURSIVE compute_file_hash(_)
\* Hash of a byte string: an injective numbering (bijective base 2 over bytes 1, 2)
compute_file_hash(bytes) ==
    IF bytes = <<>> THEN 0
    ELSE 2 * compute_file_hash(SubSeq(bytes, 1, Len(bytes) - 1)) + bytes[Len(bytes)]

\* HashReadWrapper::finalize after the wrapper has read `bytes`
finalize(bytes) == compute_file_hash(bytes)

CHUNK_SIZE == args.chunk_size

\* Lazy BACKUP_SIZE: its first dereference panics when backup_size < chunk_size
BACKUP_SIZE_panics == args.backup_size < CHUNK_SIZE
BACKUP_SIZE == args.backup_size

\* a chunks_ranges that pushes the remainder range without testing r != 0
chunks_ranges_always_remainder(file_size) ==
    LET chunk_size == CHUNK_SIZE
        n == file_size \div chunk_size
        r == file_size % chunk_size
    IN  [k \in 1..n |-> [start |-> chunk_size * (k - 1), size |-> chunk_size]]
        \o <<[start |-> chunk_size * n, size |-> r]>>

chunks_ranges(file_size) ==
    LET chunk_size == CHUNK_SIZE
        n == file_size \div chunk_size
        r == file_size % chunk_size
    IN  [k \in 1..n |-> [start |-> chunk_size * (k - 1), size |-> chunk_size]]
        \o (IF r # 0 THEN <<[start |-> chunk_size * n, size |-> r]>> ELSE <<>>)

\* index_files: the entry the scanner yields for path p of source directory d
FileEntry(d, p) == [path |-> p, size |-> Len(d[p]), mtime |-> 1]

----------------------------------------------------------------------------
(* main.rs: the deduplication controller *)

\* files_to_backup left in the order it was collected in
not_sorted(s) == s

\* Vec::sort_by(|a, b| a.1.path.cmp(&b.1.path)): a stable sort of (Hash, &FileEntry)
RECURSIVE sort_by_path(_)
sort_by_path(s) ==
    IF s = <<>> THEN <<>>
    ELSE LET x == s[Len(s)]
             front == sort_by_path(SubSeq(s, 1, Len(s) - 1))
             le == SelectSeq(front, LAMBDA y : y[2].path <= x[2].path)
             gt == SelectSeq(front, LAMBDA y : y[2].path > x[2].path)
         IN  le \o <<x>> \o gt

\* initial_backup: unique_list after the hashing loop; insert() keeps the last
\* entry of scan order for each hash
unique_list(scan) ==
    LET h(k) == compute_file_hash(disk[scan[k].path])
        hs == {h(k) : k \in DOMAIN scan}
        last(x) == CHOOSE k \in DOMAIN scan :
                       /\ h(k) = x
                       /\ \A j \in DOMAIN scan : h(j) = x => j <= k
    IN  [x \in hs |-> scan[last(x)]]

\* some enumeration of a finite set (the iteration order of a HashMap)
RECURSIVE SeqOfSet(_)
SeqOfSet(S) ==
    IF S = {} THEN <<>>
    ELSE LET x == CHOOSE y \in S : TRUE IN <<x>> \o SeqOfSet(S \ {x})

\* initial_backup: files_to_backup, collected from unique_list and sorted by path
initial_files_to_backup(scan) ==
    LET ul == unique_list(scan)
    IN  sort_by_path(SeqOfSet({<<x, ul[x]>> : x \in DOMAIN ul}))

\* a metadata map keyed by (path, size) alone
metadata_map_get_without_mtime(e) ==
    {x \in old_index : x.path = e.path /\ x.size = e.size}

\* differential_backup: metadata_map.get(&(e.path, e.mtime, e.size))
metadata_map_get(e) ==
    {x \in old_index : x.path = e.path /\ x.mtime = e.mtime /\ x.size = e.size}

\* differential_backup: the metadata tier over the scan
metadata_tier(scan) ==
    LET hit == SelectSeq(scan, LAMBDA e : metadata_map_get(e) # {})
        miss == SelectSeq(scan, LAMBDA e : metadata_map_get(e) = {})
    IN  [duplicates |-> [k \in DOMAIN hit |->
                            <<hit[k], (CHOOSE v \in metadata_map_get(hit[k]) : TRUE).hash>>],
         remaining |-> miss]

\* a hash set built from the reference rows of the scanned paths only
old_index_hash_set_of_scanned_paths ==
    {x.hash : x \in {y \in old_index : \E k \in DOMAIN files : files[k].path = y.path}}

\* differential_backup: the hashes of all rows of the reference file table
old_index_hash_set == {x.hash : x \in old_index}

\* differential_backup: the hash tier over the files that missed the metadata tier
hash_tier(dups, rem) ==
    LET pairs == [k \in DOMAIN rem |-> <<compute_file_hash(disk[rem[k].path]), rem[k]>>]
        new == SelectSeq(pairs, LAMBDA x : x[1] \notin old_index_hash_set)
        old == SelectSeq(pairs, LAMBDA x : x[1] \in old_index_hash_set)
    IN  [files_to_backup |-> sort_by_path(new),
         duplicates |-> dups \o [k \in DOMAIN old |-> <<old[k][2], old[k][1]>>]]

----------------------------------------------------------------------------
(* main.rs: write_bak_files, the chunk & pack engine *)

\* the frame before write_bak_files is entered
NoFrame ==
    [at |-> "idle", i |-> 0, chunk_n |-> 0, pos |-> 0, bak_n |-> 0,
     bak_total_size |-> 0, chunk_offset |-> 0, split_info_list |-> <<>>, baks |-> <<>>]

\* create_bak_file(bak_n): File::create of bak{bak_n}, an empty payload
create_bak_file(baks) == Append(baks, <<>>)

\* write_bak_files up to the file loop: bak0 is created
open_bak0 == [NoFrame EXCEPT !.at = "file", !.baks = create_bak_file(<<>>)]

\* the head of one iteration of the file loop: push the SplitInfo, open the reader;
\* a file without chunks ends its iteration at once
begin_file(f, ftb) ==
    LET e == ftb[f.i + 1]
        pushed == Append(f.split_info_list, [file_hash |-> e[1], chunks |-> <<>>])
    IN  IF chunks_ranges(e[2].size) = <<>>
        THEN [f EXCEPT !.split_info_list = pushed, !.i = f.i + 1, !.pos = 0]
        ELSE [f EXCEPT !.split_info_list = pushed, !.pos = 0, !.chunk_n = 0,
                       !.at = "chunk"]

\* a rotation test that forgets the size of the incoming chunk
needs_new_bak_ignoring_chunk(bak_total_size, size) == bak_total_size > BACKUP_SIZE

\* a rotation test that also rotates when the chunk would fill the bak exactly
needs_new_bak_when_full(bak_total_size, size) == bak_total_size + size >= BACKUP_SIZE

\* the test that rotates to the next bak before a chunk of `size` bytes is written
needs_new_bak(bak_total_size, size) == bak_total_size + size > BACKUP_SIZE

\* a ChunkInfo that records the offset after the chunk instead of before it
chunk_info_end_offset(hash, bak_n, chunk_offset, size) ==
    [hash |-> hash, bak_n |-> bak_n, offset |-> chunk_offset + size, size |-> size]

\* the ChunkInfo pushed for a chunk written at chunk_offset of bak bak_n
chunk_info(hash, bak_n, chunk_offset, size) ==
    [hash |-> hash, bak_n |-> bak_n, offset |-> chunk_offset, size |-> size]

\* one iteration of the chunk loop; after the last chunk of the file the file
\* loop goes on
write_chunk(f, ftb) ==
    LET e == ftb[f.i + 1]
        content == disk[e[2].path]
        chunks == chunks_ranges(e[2].size)
        r == chunks[f.chunk_n + 1]
        rotate == needs_new_bak(f.bak_total_size, r.size)
        bak_n == IF rotate THEN f.bak_n + 1 ELSE f.bak_n
        chunk_offset == IF rotate THEN 0 ELSE f.chunk_offset
        bak_total_size == IF rotate THEN 0 ELSE f.bak_total_size
        baks == IF rotate THEN create_bak_file(f.baks) ELSE f.baks
        \* reader.by_ref().take(r.size) copied into bak_output
        upto == IF f.pos + r.size <= Len(content) THEN f.pos + r.size ELSE Len(content)
        bytes == SubSeq(content, f.pos + 1, upto)
        info == chunk_info(finalize(bytes), bak_n, chunk_offset, r.size)
        last == f.chunk_n + 1 = Len(chunks)
    IN  IF BACKUP_SIZE_panics THEN [f EXCEPT !.at = "panic"]
        ELSE [f EXCEPT
                !.bak_n = bak_n,
                !.baks = [baks EXCEPT ![bak_n + 1] = @ \o bytes],
                !.split_info_list[f.i + 1].chunks = Append(@, info),
                !.bak_total_size = bak_total_size + r.size,
                !.chunk_offset = chunk_offset + r.size,
                !.pos = f.pos + Len(bytes),
                !.chunk_n = IF last THEN 0 ELSE f.chunk_n + 1,
                !.i = IF last THEN f.i + 1 ELSE f.i,
                !.at = IF last
                       THEN (IF f.pos + Len(bytes) = e[2].size THEN "file" ELSE "panic")
                       ELSE "chunk"]

\* the last flush; write_bak_files returns split_info_list
flush_last(f) == [f EXCEPT !.at = "returned"]

wbf_step(f, ftb) ==
    IF f.at = "chunk" THEN write_chunk(f, ftb)
    ELSE IF f.i < Len(ftb) THEN begin_file(f, ftb)
    ELSE flush_last(f)

RECURSIVE wbf_run(_, _)
\* write_bak_files run from frame f to its return or panic
wbf_run(f, ftb) ==
    IF f.at \in {"file", "chunk"} THEN wbf_run(wbf_step(f, ftb), ftb) ELSE f

\* write_bak_files(out_dir, ftb) as a whole
write_bak_files(ftb) == wbf_run(open_bak0, ftb)

----------------------------------------------------------------------------
(* db.rs *)

\* a row with the size and mtime columns bound the wrong way round
IndexRow_columns_swapped(e, hash) ==
    [path |-> e.path, size |-> e.mtime, mtime |-> e.size, hash |-> hash]

\* IndexRow of a file entry and its hash, as insert_index_row binds its columns
IndexRow(e, hash) == [path |-> e.path, size |-> e.size, mtime |-> e.mtime, hash |-> hash]

\* IndexDbTx::insert_index_row
insert_index_row(table, row) == Append(table, row)

\* IndexDbTx::insert_chunk_row
insert_chunk_row(table, row) == Append(table, row)

RECURSIVE insert_chunks_of(_, _, _)
insert_chunks_of(table, file_hash, chunks) ==
    IF chunks = <<>> THEN table
    ELSE insert_chunks_of(
             insert_chunk_row(table, [file_hash |-> file_hash,
                                      chunk_hash |-> chunks[1].hash,
                                      bak_n |-> chunks[1].bak_n,
                                      offset |-> chunks[1].offset,
                                      size |-> chunks[1].size]),
             file_hash, Tail(chunks))

RECURSIVE insert_file_split_info(_, _)
\* IndexDbTx::insert_file_split_info
insert_file_split_info(table, splits) ==
    IF splits = <<>> THEN table
    ELSE insert_file_split_info(
             insert_chunks_of(table, splits[1].file_hash, splits[1].chunks),
             Tail(splits))

RECURSIVE insert_index_rows(_, _)
\* a loop of insert_index_row over (entry, hash) pairs
insert_index_rows(table, pairs) ==
    IF pairs = <<>> THEN table
    ELSE insert_index_rows(insert_index_row(table, IndexRow(pairs[1][1], pairs[1][2])),
                           Tail(pairs))

----------------------------------------------------------------------------
(* The runs *)

\* the main thread outside the chunk loop
MainIdle == [step |-> "idle", todo |-> <<>>, after |-> "none", copied |-> 0]

\* index_pick_last(create_user_dir(source_dir)): the reference index of the run,
\* the one --ref-index names
index_pick_last(cli) == cli.ref_index

\* a match on ctx.last_index with its arms the wrong way round
select_mode_swapped(last_index) ==
    IF last_index = "None" THEN "differential" ELSE "initial"

\* main: match &ctx.last_index
select_mode(last_index) ==
    IF last_index = "None" THEN "initial" ELSE "differential"

\* CliArgs::parse(): the options of a run
CliArgs(cfg, ref_index, filter) ==
    [chunk_size |-> cfg.chunk_size, backup_size |-> cfg.backup_size,
     ref_index |-> ref_index, backup_output_filter |-> filter]

InitRun(scan, cli, ref) ==
    /\ pc = "start"
    /\ mode = select_mode(index_pick_last(cli))
    /\ args = cli
    /\ bak_io = <<>>
    /\ main = MainIdle
    /\ ranges = <<>>
    /\ out_dir = {}
    /\ disk = [p \in Range(scan.order) |-> scan.content[p]]
    /\ files = [k \in DOMAIN scan.order |-> FileEntry(scan.content, scan.order[k])]
    /\ old_index = ref
    /\ duplicates = <<>>
    /\ remaining = <<>>
    /\ file_hash_list = <<>>
    /\ files_to_backup = <<>>
    /\ hashed = {}
    /\ w = NoFrame
    /\ db_index = <<>>
    /\ db_chunk = <<>>
    /\ committed = FALSE

\* the source directories: a scan order of some of the paths, a content for each
SourceDirs(P, C, n) ==
    UNION {{[order |-> ps, content |-> d] : d \in [Range(ps) -> C]} : ps \in InjSeqs(P, n)}

\* reference indexes: at most one row per path, as a previous run committed them
RefIndexes ==
    UNION {{{[path |-> p, size |-> Len(rc[p]), mtime |-> rm[p],
              hash |-> compute_file_hash(rc[p])] : p \in R} :
               rc \in [R -> RefContents], rm \in [R -> RefMtimes]} :
           R \in SUBSET DiffPaths}

InitInitial ==
    \E scan \in SourceDirs(Paths, Contents, MaxFiles), cfg \in Configs :
        InitRun(scan, CliArgs(cfg, "None", "None"), {})

InitDifferential ==
    \E scan \in SourceDirs(DiffPaths, DiffContents, MaxDiffFiles), cfg \in DiffConfigs,
       ref \in RefIndexes :
        InitRun(scan, CliArgs(cfg, "Some", "None"), ref)

\* chunk_size 4, cap 10, files of 5 and 7 bytes
ScenarioS1 ==
    [scan |-> [order |-> <<1, 2>>,
               content |-> <<<<1, 2, 1, 1, 2>>, <<2, 2, 1, 2, 1, 1, 1>>>>],
     cfg |-> [chunk_size |-> 4, backup_size |-> 10]]

\* chunk_size = cap = 8, one file of 20 bytes
ScenarioS3 ==
    [scan |-> [order |-> <<1>>,
               content |-> <<[k \in 1..20 |-> IF k % 3 = 0 THEN 2 ELSE 1]>>],
     cfg |-> [chunk_size |-> 8, backup_size |-> 8]]

\* initial runs on the inputs of the two rotation scenarios
InitScenarios ==
    \E sc \in {ScenarioS1, ScenarioS3} :
        InitRun(sc.scan, CliArgs(sc.cfg, "None", "None"), {})

Init == InitInitial \/ InitDifferential \/ InitScenarios

\* main.rs 153-172: hash every scanned file, keep one entry per hash, sort by path
InitialDedup ==
    /\ UNCHANGED ext_vars
    /\ pc = "start" /\ mode = "initial"
    /\ file_hash_list' = [k \in DOMAIN files |-> compute_file_hash(disk[files[k].path])]
    /\ hashed' = {files[k].path : k \in DOMAIN files}
    /\ files_to_backup' = initial_files_to_backup(files)
    /\ pc' = "write_bak_files"
    /\ UNCHANGED <<mode, args, disk, files, old_index, duplicates, remaining, w,
                   db_index, db_chunk, committed>>

\* main.rs 62-89: read the reference, deduplicate by (path, mtime, size)
MetadataTier ==
    /\ UNCHANGED ext_vars
    /\ pc = "start" /\ mode = "differential"
    /\ duplicates' = metadata_tier(files).duplicates
    /\ remaining' = metadata_tier(files).remaining
    /\ pc' = "hash_tier"
    /\ UNCHANGED <<mode, args, disk, files, old_index, file_hash_list, files_to_backup,
                   hashed, w, db_index, db_chunk, committed>>

\* main.rs 90-105: hash the remaining files, deduplicate by hash, sort, assert
HashTier ==
    /\ UNCHANGED ext_vars
    /\ pc = "hash_tier"
    /\ LET t == hash_tier(duplicates, remaining) IN
        /\ duplicates' = t.duplicates
        /\ files_to_backup' = t.files_to_backup
        /\ pc' = IF Len(t.duplicates) + Len(t.files_to_backup) = Len(files)
                 THEN "write_bak_files" ELSE "panic"
    /\ hashed' = {remaining[k].path : k \in DOMAIN remaining}
    /\ UNCHANGED <<mode, args, disk, files, old_index, remaining, file_hash_list, w,
                   db_index, db_chunk, committed>>

\* main.rs 194-210
OpenBak0 ==
    /\ UNCHANGED ext_vars
    /\ pc = "write_bak_files" /\ w.at = "idle"
    /\ w' = open_bak0
    /\ UNCHANGED <<pc, mode, args, disk, files, old_index, duplicates, remaining,
                   file_hash_list, files_to_backup, hashed, db_index, db_chunk, committed>>

\* main.rs 212-222 (and 258 for a file without chunks)
BeginFile ==
    /\ UNCHANGED ext_vars
    /\ pc = "write_bak_files" /\ w.at = "file" /\ w.i < Len(files_to_backup)
    /\ w' = begin_file(w, files_to_backup)
    /\ UNCHANGED <<pc, mode, args, disk, files, old_index, duplicates, remaining,
                   file_hash_list, files_to_backup, hashed, db_index, db_chunk, committed>>

\* main.rs 223-257 (and 258 after the last chunk of the file)
WriteChunk ==
    /\ UNCHANGED ext_vars
    /\ pc = "write_bak_files" /\ w.at = "chunk"
    /\ w' = write_chunk(w, files_to_backup)
    /\ pc' = IF w'.at = "panic" THEN "panic" ELSE pc
    /\ UNCHANGED <<mode, args, disk, files, old_index, duplicates, remaining,
                   file_hash_list, files_to_backup, hashed, db_index, db_chunk, committed>>

\* main.rs 260-263
FlushLast ==
    /\ UNCHANGED ext_vars
    /\ pc = "write_bak_files" /\ w.at = "file" /\ w.i = Len(files_to_backup)
    /\ w' = flush_last(w)
    /\ pc' = "index_db"
    /\ UNCHANGED <<mode, args, disk, files, old_index, duplicates, remaining,
                   file_hash_list, files_to_backup, hashed, db_index, db_chunk, committed>>

\* main.rs 175-187: one row per scanned file, the chunk rows, commit
InitialIndexDb ==
    /\ UNCHANGED ext_vars
    /\ pc = "index_db" /\ mode = "initial"
    /\ db_index' = insert_index_rows(<<>>,
                        [k \in DOMAIN files |-> <<files[k], file_hash_list[k]>>])
    /\ db_chunk' = insert_file_split_info(<<>>, w.split_info_list)
    /\ committed' = TRUE
    /\ pc' = "done"
    /\ UNCHANGED <<mode, args, disk, files, old_index, duplicates, remaining,
                   file_hash_list, files_to_backup, hashed, w>>

\* a lookup by identity that never finds a scanned file
new_file_rows_not_found == <<>>

\* main.rs 114-129: the scanned files found in new_files_ref_map, in scan order
new_file_rows ==
    LET is_new(e) == \E k \in DOMAIN files_to_backup : files_to_backup[k][2] = e
        hash_of(e) == files_to_backup[CHOOSE k \in DOMAIN files_to_backup :
                                          files_to_backup[k][2] = e][1]
        new == SelectSeq(files, is_new)
    IN  [k \in DOMAIN new |-> <<new[k], hash_of(new[k])>>]

\* main.rs 110-141: the chunk rows, the rows of the new files, the duplicates, commit
DiffIndexDb ==
    /\ UNCHANGED ext_vars
    /\ pc = "index_db" /\ mode = "differential"
    /\ db_chunk' = insert_file_split_info(<<>>, w.split_info_list)
    /\ db_index' = insert_index_rows(insert_index_rows(<<>>, new_file_rows), duplicates)
    /\ committed' = TRUE
    /\ pc' = "asserts"
    /\ UNCHANGED <<mode, args, disk, files, old_index, duplicates, remaining,
                   file_hash_list, files_to_backup, hashed, w>>

\* split_info_list.iter().map(|x| x.chunks.len()).sum()
chunks_written(splits) == SumSeq([k \in DOMAIN splits |-> Len(splits[k].chunks)])

\* main.rs 142-148: the two assertions on the committed database
DiffAsserts ==
    /\ UNCHANGED ext_vars
    /\ pc = "asserts"
    /\ pc' = IF /\ Len(db_index) = Len(files)
                /\ Len(db_chunk) = chunks_written(w.split_info_list)
             THEN "done" ELSE "panic"
    /\ UNCHANGED <<mode, args, disk, files, old_index, duplicates, remaining,
                   file_hash_list, files_to_backup, hashed, w, db_index, db_chunk,
                   committed>>

\* main.rs 111-140, 176-185: IndexDb::new, an insert or the commit returns an
\* error; the transaction is dropped uncommitted
IndexDbFails ==
    /\ pc = "index_db"
    /\ pc' = "error"
    /\ UNCHANGED <<mode, args, disk, files, old_index, duplicates, remaining,
                   file_hash_list, files_to_backup, hashed, w, db_index, db_chunk,
                   committed, ext_vars>>

\* create_user_dir(source_dir): the directory the index database is built in,
\* another directory than the output directory
create_user_dir == "user_dir"

\* index_formatted_name(): the file name of the index database of this run
index_formatted_name == "index_formatted_name"

\* main.rs 36-39: ctx.index_db
ctx_index_db == <<create_user_dir, index_formatted_name>>

\* a main that goes on to the copy when the backup returned an error
copy_index_db_reached_after_error == pc \in {"done", "error"}

\* main.rs 41-52: fs::copy is reached when initial_backup or differential_backup
\* returned Ok
copy_index_db_reached == pc = "done"

\* main.rs 52-53: fs::copy(ctx.index_db, out_dir/index.db); a copy that fails
\* may have created the file
CopyIndexDb ==
    /\ copy_index_db_reached
    /\ ctx_index_db # <<"out_dir", "index.db">>
    /\ \E ok \in BOOLEAN, created \in BOOLEAN :
          /\ ok => created
          /\ out_dir' = IF created THEN out_dir \cup {"index.db"} ELSE out_dir
          /\ pc' = IF ok THEN "exit" ELSE "error"
    /\ UNCHANGED <<mode, args, disk, files, old_index, duplicates, remaining,
                   file_hash_list, files_to_backup, hashed, w, db_index, db_chunk,
                   committed, bak_io, main, ranges>>

Next ==
    \/ InitialDedup
    \/ MetadataTier
    \/ HashTier
    \/ OpenBak0
    \/ BeginFile
    \/ WriteChunk
    \/ FlushLast
    \/ InitialIndexDb
    \/ DiffIndexDb
    \/ DiffAsserts
    \/ IndexDbFails
    \/ CopyIndexDb

Spec == Init /\ [][Next]_vars

----------------------------------------------------------------------------
(* Vocabulary of the properties *)

\* the chunk placements recorded so far, in emission order
Placements == Flatten([k \in DOMAIN w.split_info_list |-> w.split_info_list[k].chunks])

\* the placements recorded with bak index n, in emission order
PlacementsIn(n) == SelectSeq(Placements, LAMBDA c : c.bak_n = n)

BakIndexes == 0..(Len(w.baks) - 1)

\* number of payload bytes handed to the writer of bak n
payload_size(n) == Len(w.baks[n + 1])

SizesOf(cs) == [k \in DOMAIN cs |-> cs[k].size]

\* a placement or chunk row names bytes that lie inside one bak
InsideBak(c) ==
    /\ c.bak_n \in BakIndexes
    /\ c.offset + c.size <= payload_size(c.bak_n)

\* the bytes a placement or chunk row points at
BytesAt(c) == SubSeq(w.baks[c.bak_n + 1], c.offset + 1, c.offset + c.size)

Done == pc = "done"

----------------------------------------------------------------------------
(* C1 *)

\* C1: while and after write_bak_files packs (chunk size <= cap), for every bak
\* index n the sizes of the placements recorded with bak index n sum to at most
\* the cap, every chunk lies whole inside the one bak it is recorded in, and a
\* placement that leaves the bak of its predecessor starts the next bak at offset 0.
C1_CapAndNoSplit ==
    (~BACKUP_SIZE_panics) =>
        /\ \A n \in BakIndexes :
              /\ SumSeq(SizesOf(PlacementsIn(n))) <= BACKUP_SIZE
              /\ payload_size(n) <= BACKUP_SIZE
        /\ \A k \in DOMAIN Placements :
              /\ InsideBak(Placements[k])
              /\ finalize(BytesAt(Placements[k])) = Placements[k].hash
              /\ (k > 1 /\ Placements[k].bak_n # Placements[k - 1].bak_n) =>
                    /\ Placements[k].bak_n = Placements[k - 1].bak_n + 1
                    /\ Placements[k].offset = 0

\* a finished run in which a chunk found room left in bak n, too little for it,
\* and went to bak n+1
C1_Witness ==
    /\ Done
    /\ \E k \in DOMAIN Placements :
          /\ k > 1
          /\ Placements[k].bak_n = Placements[k - 1].bak_n + 1
          /\ Placements[k].offset = 0
          /\ payload_size(Placements[k - 1].bak_n) < BACKUP_SIZE
          /\ payload_size(Placements[k - 1].bak_n) + Placements[k].size > BACKUP_SIZE

----------------------------------------------------------------------------
(* C2 *)

\* C2: for each bak index n the (offset, size) intervals of the placements
\* recorded with bak index n, in emission order, start at 0, each begins where
\* the previous one ends, and the last ends at payload_size(n).
C2_Tiling ==
    \A n \in BakIndexes :
        LET cs == PlacementsIn(n) IN
        /\ cs = <<>> => payload_size(n) = 0
        /\ cs # <<>> =>
              /\ cs[1].offset = 0
              /\ \A k \in 2..Len(cs) : cs[k].offset = cs[k - 1].offset + cs[k - 1].size
              /\ cs[Len(cs)].offset + cs[Len(cs)].size = payload_size(n)

\* a finished run with two baks, one of them holding several chunks
C2_Witness ==
    /\ Done
    /\ Len(w.baks) >= 2
    /\ \E n \in BakIndexes : Len(PlacementsIn(n)) >= 2
    /\ \A n \in BakIndexes : PlacementsIn(n) # <<>>

----------------------------------------------------------------------------
(* C3, C4 *)

\* the rows of the committed chunk table that carry file-hash h, in table order
ChunkRowsOf(h) == SelectSeq(db_chunk, LAMBDA c : c.file_hash = h)

\* the bytes the chunk rows of file-hash h point at, concatenated in table order
ReadBack(h) ==
    LET rows == ChunkRowsOf(h)
    IN  Flatten([k \in DOMAIN rows |->
                    IF InsideBak(rows[k]) THEN BytesAt(rows[k]) ELSE <<0>>])

\* C3: for every row of the committed file table, the bytes at the chunk rows
\* carrying the row's file-hash, concatenated in chunk-table order, are the
\* file's bytes (initial and differential mode).
C3_RoundTrip ==
    (Done /\ committed) =>
        \A k \in DOMAIN db_index : ReadBack(db_index[k].hash) = disk[db_index[k].path]

\* C4: in every committed index database every file-table row has at least one
\* chunk row carrying its file-hash, and the sizes of these chunk rows sum to
\* the row's size (zero-byte files and copied duplicates included).
C4_EveryFileHasChunks ==
    (Done /\ committed) =>
        \A k \in DOMAIN db_index :
            LET rows == ChunkRowsOf(db_index[k].hash) IN
            /\ rows # <<>>
            /\ SumSeq(SizesOf(rows)) = db_index[k].size

----------------------------------------------------------------------------
(* C5 .. C8: differential mode *)

Differential == mode = "differential"

Scanned == Range(files)

\* the reference rows with the (path, mtime, size) of scanned file e
SameMetadata(e) ==
    {x \in old_index : x.path = e.path /\ x.mtime = e.mtime /\ x.size = e.size}

\* the hashes of the reference file table
RefHashes == {x.hash : x \in old_index}

ContentHash(e) == compute_file_hash(disk[e.path])

\* the files handed to the pack engine
ToWrite == {files_to_backup[k][2] : k \in DOMAIN files_to_backup}

Copied == {duplicates[k][1] : k \in DOMAIN duplicates}

\* no chunk placement and no chunk row carries file-hash h
NoChunkOf(h) ==
    /\ \A k \in DOMAIN w.split_info_list :
           w.split_info_list[k].file_hash = h => w.split_info_list[k].chunks = <<>>
    /\ \A k \in DOMAIN db_chunk : db_chunk[k].file_hash # h

AfterMetadataTier == pc \notin {"start"}
AfterHashTier == pc \notin {"start", "hash_tier"}

\* C5: in differential mode every scanned file whose (path, mtime, size) is that
\* of a reference row is a copied duplicate carrying that row's hash, is never
\* hashed, is not handed to the pack engine and has no chunk row; every other
\* scanned file goes to the hash tier, where it is hashed.
C5_MetadataTier ==
    (Differential /\ AfterMetadataTier) =>
        \A e \in Scanned :
            /\ SameMetadata(e) # {} =>
                  /\ \E x \in SameMetadata(e) : <<e, x.hash>> \in Range(duplicates)
                  /\ e.path \notin hashed
                  /\ e \notin ToWrite
                  /\ \A x \in SameMetadata(e) : NoChunkOf(x.hash)
            /\ SameMetadata(e) = {} =>
                  /\ e \in Range(remaining)
                  /\ AfterHashTier => e.path \in hashed

\* a finished differential run with a metadata hit whose content differs from
\* the reference (so hashing it would have told), a metadata miss, and chunks
C5_Witness ==
    /\ Differential /\ Done
    /\ \E e \in Scanned :
          /\ SameMetadata(e) # {}
          /\ ContentHash(e) \notin RefHashes
    /\ \E e \in Scanned : SameMetadata(e) = {} /\ \E x \in old_index : x.path = e.path
    /\ db_chunk # <<>>

\* C6: in differential mode a file that missed the metadata tier is a copied
\* duplicate, with its computed hash and without chunks, exactly if that hash
\* is the hash of some reference row; otherwise it is to-write, and once the
\* run is done its bytes are in this run's baks at its chunk rows.
C6_HashTier ==
    (Differential /\ AfterHashTier) =>
        \A e \in Range(remaining) :
            LET h == ContentHash(e) IN
            /\ h \in RefHashes <=> <<e, h>> \in Range(duplicates)
            /\ h \notin RefHashes <=> <<h, e>> \in Range(files_to_backup)
            /\ h \in RefHashes => e \notin ToWrite /\ NoChunkOf(h)
            /\ (h \notin RefHashes /\ Done) =>
                  \E k \in DOMAIN files_to_backup :
                      /\ files_to_backup[k] = <<h, e>>
                      /\ w.split_info_list[k].file_hash = h
                      /\ \A j \in DOMAIN w.split_info_list[k].chunks :
                             InsideBak(w.split_info_list[k].chunks[j])
                      /\ Flatten([j \in DOMAIN w.split_info_list[k].chunks |->
                                     BytesAt(w.split_info_list[k].chunks[j])])
                            = disk[e.path]
                      /\ e.size > 0 => \E j \in DOMAIN db_chunk : db_chunk[j].file_hash = h

\* a finished differential run with a renamed file (its hash is in the
\* reference under another path only) and an edited file that was packed
C6_Witness ==
    /\ Differential /\ Done
    /\ \E e \in Range(remaining) :
          /\ ContentHash(e) \in RefHashes
          /\ \A x \in old_index : x.hash = ContentHash(e) => x.path # e.path
    /\ \E e \in Range(remaining) :
          /\ ContentHash(e) \notin RefHashes
          /\ \E x \in old_index : x.path = e.path
          /\ e.size > 0

\* an assertion of differential_backup failed
AssertFailed == pc = "panic" /\ w.at # "panic"

\* C7: in differential mode no consistency assertion fails: the copied and the
\* to-write files partition the scanned files, the committed file table has one
\* row per scanned file, and the committed chunk table has one row per chunk
\* the pack engine wrote.
C7_Consistency ==
    Differential =>
        /\ ~AssertFailed
        /\ AfterHashTier =>
              /\ Len(duplicates) + Len(files_to_backup) = Len(files)
              /\ Copied \cup ToWrite = Scanned
              /\ Copied \cap ToWrite = {}
        /\ committed =>
              /\ Len(db_index) = Len(files)
              /\ \A e \in Scanned :
                     Cardinality({k \in DOMAIN db_index : db_index[k].path = e.path}) = 1
              /\ Len(db_chunk) = Len(Placements)
              /\ \A k \in DOMAIN db_chunk : InsideBak(db_chunk[k])

\* a finished differential run with copied files, to-write files and chunk rows
C7_Witness ==
    /\ Differential /\ Done /\ committed
    /\ Copied # {} /\ ToWrite # {}
    /\ Len(db_chunk) >= 2

MetadataKey(x) == <<x.path, x.mtime, x.size>>

\* the scanned files are the files of the reference, with the same metadata
Unchanged == {MetadataKey(e) : e \in Scanned} = {MetadataKey(x) : x \in old_index}

\* C8: a differential run over a source whose files have the (path, mtime, size)
\* of the reference rows writes no chunk row and no bak payload byte, and
\* commits a file table with the rows of the reference file table.
C8_UnchangedSource ==
    (Differential /\ Unchanged) =>
        /\ \A n \in BakIndexes : payload_size(n) = 0
        /\ Placements = <<>>
        /\ db_chunk = <<>>
        /\ Done => committed /\ Range(db_index) = old_index

\* a finished differential run over an unchanged source of several files, one
\* of them with a hash in the reference that is not the hash of its content
C8_Witness ==
    /\ Differential /\ Done /\ Unchanged
    /\ Len(files) >= 2
    /\ \E e \in Scanned : ContentHash(e) \notin RefHashes

----------------------------------------------------------------------------
(* C9 *)

\* the scan orders of the scanned files
ScanOrders ==
    {s \in [DOMAIN files -> Scanned] : \A a, b \in DOMAIN files : a # b => s[a] # s[b]}

\* the files the controller hands to the pack engine when the scanner yields `scan`
PlanOf(scan) ==
    IF mode = "initial" THEN initial_files_to_backup(scan)
    ELSE LET t == metadata_tier(scan)
         IN  hash_tier(t.duplicates, t.remaining).files_to_backup

\* the chunk rows and the baks of the run in which the scanner yields `scan`
LayoutOf(scan) ==
    LET f == write_bak_files(PlanOf(scan))
    IN  [chunk |-> insert_file_split_info(<<>>, f.split_info_list), baks |-> f.baks]

\* C9: the chunk rows, in order, and the bytes of every bak of a finished run
\* are those of the run over the same files, configuration and reference in
\* any other scan order.
C9_ScanOrderIndependent ==
    Done => \A scan \in ScanOrders : LayoutOf(scan) = [chunk |-> db_chunk, baks |-> w.baks]

----------------------------------------------------------------------------
(* C10 *)

\* the hashes of the first n chunks of a file with these bytes, left to right
ChunkHashes(bytes, n) ==
    LET rs == chunks_ranges(Len(bytes))
    IN  [k \in 1..n |-> finalize(SubSeq(bytes, rs[k].start + 1, rs[k].start + rs[k].size))]

\* C10: the files handed to the pack engine are in increasing order of path,
\* the k-th SplitInfo is that of the k-th of them, its chunks are the chunks
\* of that file from left to right, and the committed chunk table holds the
\* chunk rows file by file in that order.
C10_PathOrder ==
    pc \in {"write_bak_files", "index_db", "asserts", "done"} =>
        /\ \A k \in DOMAIN files_to_backup :
               k > 1 => files_to_backup[k - 1][2].path < files_to_backup[k][2].path
        /\ Len(w.split_info_list) <= Len(files_to_backup)
        /\ \A k \in DOMAIN w.split_info_list :
               LET split == w.split_info_list[k]
                   bytes == disk[files_to_backup[k][2].path]
               IN  /\ split.file_hash = files_to_backup[k][1]
                   /\ Len(split.chunks) <= Len(chunks_ranges(Len(bytes)))
                   /\ [j \in DOMAIN split.chunks |-> split.chunks[j].hash]
                         = ChunkHashes(bytes, Len(split.chunks))
                   /\ (k < Len(w.split_info_list) \/ w.at = "returned") =>
                         Len(split.chunks) = Len(chunks_ranges(Len(bytes)))
        /\ committed =>
              db_chunk = Flatten([k \in DOMAIN w.split_info_list |->
                             [j \in DOMAIN w.split_info_list[k].chunks |->
                                 [file_hash |-> files_to_backup[k][1],
                                  chunk_hash |-> w.split_info_list[k].chunks[j].hash,
                                  bak_n |-> w.split_info_list[k].chunks[j].bak_n,
                                  offset |-> w.split_info_list[k].chunks[j].offset,
                                  size |-> w.split_info_list[k].chunks[j].size]]])

\* a finished run that packed several files of several chunks, scanned in
\* another order than that of their paths
C10_Witness ==
    /\ Done
    /\ Len(files_to_backup) >= 2
    /\ \A k \in DOMAIN w.split_info_list : Len(w.split_info_list[k].chunks) >= 2
    /\ \E a, b \in DOMAIN files : a < b /\ files[a].path > files[b].path
                                     /\ files[a] \in ToWrite /\ files[b] \in ToWrite

----------------------------------------------------------------------------
(* C14, C15: the options of the run *)

C15_FatalBeforeOutput ==
    args.backup_size < args.chunk_size =>
        /\ w.baks = <<>>
        /\ ~committed
        /\ pc # "done"

----------------------------------------------------------------------------
(* C17: chunks_ranges on its own *)

\* a file of file_size bytes and a chunk size, before chunks_ranges is called
InitRanges ==
    \E file_size \in 0..MaxFileSize, chunk_size \in 1..MaxChunkSize :
        InitRun([order |-> <<1>>, content |-> [p \in {1} |-> [k \in 1..file_size |-> 1]]],
                CliArgs([chunk_size |-> chunk_size, backup_size |-> chunk_size],
                        "None", "None"),
                {})

\* main.rs 221: let chunks = chunks_ranges(file_size)
ChunksRanges ==
    /\ ranges = <<>>
    /\ ranges' = <<chunks_ranges(files[1].size)>>
    /\ UNCHANGED <<pc, mode, args, disk, files, old_index, duplicates, remaining,
                   file_hash_list, files_to_backup, hashed, w, db_index, db_chunk,
                   committed, bak_io, main, out_dir>>

SpecRanges == InitRanges /\ [][ChunksRanges]_vars

\* C17: chunks_ranges yields size / S ranges of size S, then one range of
\* size mod S only if that is not zero; the ranges are consecutive from 0, each
\* of a size in 1..S, and their sizes sum to the file size
C17_ChunksRanges ==
    ranges # <<>> =>
        LET rs == ranges[1]
            size == files[1].size
            S == args.chunk_size
        IN  /\ Len(rs) = size \div S + (IF size % S # 0 THEN 1 ELSE 0)
            /\ \A k \in DOMAIN rs :
                  /\ k <= size \div S => rs[k].size = S
                  /\ k > size \div S => rs[k].size = size % S
                  /\ rs[k].size > 0 /\ rs[k].size <= S
                  /\ rs[k].start = SumSeq([j \in 1..(k - 1) |-> rs[j].size])
            /\ SumSeq(SizesOf(rs)) = size
            /\ size = 0 => rs = <<>>

\* chunks_ranges has returned for a file of several full chunks and a remainder
C17_Witness ==
    /\ ranges # <<>>
    /\ Len(ranges[1]) >= 3
    /\ files[1].size % args.chunk_size # 0

----------------------------------------------------------------------------
(* C19: the rotation test *)

\* the payload sizes of the bak files, bak0 first
Payloads == [n \in DOMAIN w.baks |-> Len(w.baks[n])]

\* the k-th chunk of the run went to the bak in use, at the end of its payload
\* p, when p + size <= cap, and to the start of the next bak otherwise
GreedyPlacement(k) ==
    LET c == Placements[k]
        n == IF k = 1 THEN 0 ELSE Placements[k - 1].bak_n
        before == SelectSeq(SubSeq(Placements, 1, k - 1), LAMBDA x : x.bak_n = n)
        p == SumSeq(SizesOf(before))
    IN  IF p + c.size > args.backup_size
        THEN c.bak_n = n + 1 /\ c.offset = 0
        ELSE c.bak_n = n /\ c.offset = p

\* C19: the engine rotates before a chunk of size s iff p + s > cap, and
\* appends at offset p otherwise, p + s = cap included; scenario S1 gives
\* payloads of 9 and 3 bytes, scenario S3 gives 8, 8 and 4
C19_ExactGreedyRotation ==
    /\ \A k \in DOMAIN Placements : GreedyPlacement(k)
    /\ w.at = "returned" =>
          /\ disk = ScenarioS1.scan.content /\ args.chunk_size = 4 /\ args.backup_size = 10
                => Payloads = <<9, 3>>
          /\ disk = ScenarioS3.scan.content /\ args.chunk_size = 8 /\ args.backup_size = 8
                => Payloads = <<8, 8, 4>>

\* a finished run in which a chunk filled its bak exactly and the next chunk
\* rotated
C19_Witness ==
    /\ Done
    /\ \E k \in DOMAIN Placements :
          /\ Placements[k].offset > 0
          /\ Placements[k].offset + Placements[k].size = args.backup_size
          /\ k < Len(Placements)
          /\ Placements[k + 1].bak_n = Placements[k].bak_n + 1

----------------------------------------------------------------------------
(* lib.rs: BakOutputWriter, ProgramFilterWrapper, the filter and its drain *)

\* the writer create_bak_file returns for a new bak: File::create, BufWriter::new
\* and, with a filter, the spawned child (its Child handle is dropped without a
\* wait) and the spawned copy thread
new_bak_output(filter) ==
    [file |-> <<>>, file_open |-> TRUE, buf |-> <<>>, sent |-> <<>>,
     filtered |-> filter # "None",
     stdin |-> IF filter # "None" THEN "open" ELSE "none",
     pin |-> <<>>, pout |-> <<>>,
     child |-> IF filter # "None" THEN "running" ELSE "none",
     exit_status |-> "none", waited |-> FALSE,
     drain |-> IF filter # "None" THEN "running" ELSE "none"]

\* create_bak_file when spawn() fails: the file exists, its BufWriter is dropped
failed_bak_output ==
    [new_bak_output("None") EXCEPT !.file_open = FALSE, !.filtered = TRUE]

\* BufWriter::write of one byte; `spill` when the buffer is written through
bufwriter_write(b, byte, spill) ==
    IF spill THEN [b EXCEPT !.file = @ \o b.buf \o <<byte>>, !.buf = <<>>]
    ELSE [b EXCEPT !.buf = Append(@, byte)]

\* BufWriter::flush
bufwriter_flush(b) == [b EXCEPT !.file = @ \o b.buf, !.buf = <<>>]

\* drop of the BufWriter<File>: flush, close the file
bufwriter_drop(b) == [bufwriter_flush(b) EXCEPT !.file_open = FALSE]

\* BakOutputWriter::write of one byte (a write to ChildStdin goes into the pipe)
write(b, byte, spill) ==
    LET sent == [b EXCEPT !.sent = Append(@, byte)]
    IN  IF b.filtered THEN [sent EXCEPT !.pin = Append(@, byte)]
        ELSE bufwriter_write(sent, byte, spill)

\* a write that blocks: the pipe to the filter is full
write_blocks(b) == b.filtered /\ Len(b.pin) >= PipeCap

\* BakOutputWriter::flush (ChildStdin::flush does nothing)
flush(b) == IF b.filtered THEN b ELSE bufwriter_flush(b)

\* ProgramFilterWrapper::close_program_in
close_program_in(b) == [b EXCEPT !.stdin = "closed"]

\* ProgramFilterWrapper::wait_for_output_stream, once the copy thread has ended
wait_for_output_stream(b) == [b EXCEPT !.drain = "joined"]

\* a Drop that closes the stdin of the filter and does not join the copy thread
drop_steps_without_join(filtered) ==
    IF filtered THEN <<"close_program_in">> ELSE <<"drop_bufwriter">>

\* a Drop that joins the copy thread before it closes the stdin of the filter
drop_steps_join_first(filtered) ==
    IF filtered THEN <<"wait_for_output_stream", "close_program_in">>
    ELSE <<"drop_bufwriter">>

\* the steps of dropping a BakOutputWriter: Drop for ProgramFilterWrapper, or
\* the drop of the plain BufWriter
drop_steps(filtered) ==
    IF filtered THEN <<"close_program_in", "wait_for_output_stream">>
    ELSE <<"drop_bufwriter">>

\* the filter program copies one byte from its stdin to its stdout
filter_copy(b) == [b EXCEPT !.pin = Tail(@), !.pout = Append(@, Head(b.pin))]

\* the filter has nothing to write: its stdout pipe is full
filter_blocks(b) == Len(b.pout) >= PipeCap

\* the filter program exits after EOF on its stdin, closing its stdout
filter_exit(b, filter) ==
    [b EXCEPT !.child = "exited",
              !.exit_status = IF filter = "cat" THEN "0" ELSE "1"]

\* a copy thread that ends without its writer being flushed
drain_exit_unflushed(b) == [b EXCEPT !.buf = <<>>, !.file_open = FALSE, !.drain = "finished"]

\* the copy thread: io::copy moves one byte from the stdout pipe to the writer
drain_copy(b, spill) == bufwriter_write([b EXCEPT !.pout = Tail(@)], Head(b.pout), spill)

\* the copy thread: io::copy returns at EOF, the closure ends and drops the writer
drain_exit(b) == [bufwriter_drop(b) EXCEPT !.drain = "finished"]

----------------------------------------------------------------------------
(* write_bak_files step by step, with the filter processes and copy threads *)

dedup_vars == <<mode, args, disk, files, old_index, duplicates, remaining,
                file_hash_list, files_to_backup, hashed>>
db_vars == <<db_index, db_chunk, committed>>

\* --backup-output-filter: none, `cat`, or a cat that exits with status 1
PipeFilters == {"None", "cat", "cat; exit 1"}
PipeContents == {<<>>, <<1, 2>>, <<1, 2, 1>>}
PipeConfigs == {[chunk_size |-> 1, backup_size |-> 2],
                [chunk_size |-> 2, backup_size |-> 2],
                [chunk_size |-> 2, backup_size |-> 1]}
PipeDirs ==
    {[order |-> <<>>, content |-> <<>>]}
    \cup {[order |-> <<1>>, content |-> <<c>>] : c \in PipeContents}
    \cup {[order |-> <<2, 1>>, content |-> <<c, <<2, 1>>>>] : c \in PipeContents}
\* reference indexes of the differential runs: empty, or a row for path 1
PipeRefIndexes ==
    {{}} \cup {{[path |-> 1, size |-> 2, mtime |-> m, hash |-> compute_file_hash(<<1, 2>>)]} :
                  m \in RefMtimes}

InitPipe ==
    \/ \E scan \in PipeDirs, cfg \in PipeConfigs, filter \in PipeFilters :
           InitRun(scan, CliArgs(cfg, "None", filter), {})
    \/ \E scan \in PipeDirs, cfg \in PipeConfigs, filter \in PipeFilters,
          ref \in PipeRefIndexes :
           InitRun(scan, CliArgs(cfg, "Some", filter), ref)

\* the writer bak_output names, and the one being dropped
Current == Len(bak_io)
Dropping == IF main.after \in {"return", "panic"} THEN Len(bak_io) ELSE Len(bak_io) - 1

\* the range of the chunk the chunk loop is at, and the content of its file
ChunkRange ==
    chunks_ranges(files_to_backup[w.i + 1][2].size)[w.chunk_n + 1]
ChunkContent == disk[files_to_backup[w.i + 1][2].path]

\* main.rs 194-210: create_bak_file(0); spawn() may fail
PipeOpenBak0 ==
    /\ pc = "write_bak_files" /\ w.at = "idle"
    /\ \E spawned \in BOOLEAN :
          /\ ~spawned => args.backup_output_filter # "None"
          /\ IF spawned
             THEN /\ bak_io' = <<new_bak_output(args.backup_output_filter)>>
                  /\ w' = open_bak0
                  /\ pc' = pc
             ELSE /\ bak_io' = <<failed_bak_output>>
                  /\ w' = w
                  /\ pc' = "error"
    /\ UNCHANGED <<main, ranges, out_dir, dedup_vars, db_vars>>

\* main.rs 223-233: the rotation test; dereferencing BACKUP_SIZE may panic,
\* and the unwinding drops bak_output
PipeRotationTest ==
    /\ pc = "write_bak_files" /\ w.at = "chunk" /\ main.step = "idle"
    /\ main' = IF BACKUP_SIZE_panics
               THEN [MainIdle EXCEPT !.step = "drop", !.after = "panic",
                                     !.todo = drop_steps(bak_io[Current].filtered)]
               ELSE IF needs_new_bak(w.bak_total_size, ChunkRange.size)
               THEN [MainIdle EXCEPT !.step = "flush"]
               ELSE [MainIdle EXCEPT !.step = "copy"]
    /\ UNCHANGED <<pc, w, bak_io, ranges, out_dir, dedup_vars, db_vars>>

\* main.rs 234-236: bak_output.flush()
PipeFlush ==
    /\ pc = "write_bak_files" /\ main.step = "flush"
    /\ bak_io' = [bak_io EXCEPT ![Current] = flush(@)]
    /\ main' = [main EXCEPT !.step = "create"]
    /\ UNCHANGED <<pc, w, ranges, out_dir, dedup_vars, db_vars>>

\* main.rs 238, right-hand side: create_bak_file(bak_n) creates the next file
\* and spawns its filter and copy thread; then the assignment (or the error
\* return) drops the old writer
PipeCreateBak ==
    /\ pc = "write_bak_files" /\ main.step = "create"
    /\ \E spawned \in BOOLEAN :
          /\ ~spawned => args.backup_output_filter # "None"
          /\ bak_io' = Append(bak_io, IF spawned
                                      THEN new_bak_output(args.backup_output_filter)
                                      ELSE failed_bak_output)
          /\ main' = [main EXCEPT !.step = "drop",
                                  !.todo = drop_steps(bak_io[Current].filtered),
                                  !.after = IF spawned THEN "copy" ELSE "error"]
    /\ UNCHANGED <<pc, w, ranges, out_dir, dedup_vars, db_vars>>

\* lib.rs 378-382, called by drop
PipeCloseProgramIn ==
    /\ pc = "write_bak_files" /\ main.step = "drop"
    /\ main.todo # <<>> /\ Head(main.todo) = "close_program_in"
    /\ bak_io' = [bak_io EXCEPT ![Dropping] = close_program_in(@)]
    /\ main' = [main EXCEPT !.todo = Tail(@)]
    /\ UNCHANGED <<pc, w, ranges, out_dir, dedup_vars, db_vars>>

\* lib.rs 372-376, called by drop: join() returns once the copy thread has ended
PipeWaitForOutputStream ==
    /\ pc = "write_bak_files" /\ main.step = "drop"
    /\ main.todo # <<>> /\ Head(main.todo) = "wait_for_output_stream"
    /\ bak_io[Dropping].drain = "finished"
    /\ bak_io' = [bak_io EXCEPT ![Dropping] = wait_for_output_stream(@)]
    /\ main' = [main EXCEPT !.todo = Tail(@)]
    /\ UNCHANGED <<pc, w, ranges, out_dir, dedup_vars, db_vars>>

\* the drop of a plain writer
PipeDropBufWriter ==
    /\ pc = "write_bak_files" /\ main.step = "drop"
    /\ main.todo # <<>> /\ Head(main.todo) = "drop_bufwriter"
    /\ bak_io' = [bak_io EXCEPT ![Dropping] = bufwriter_drop(@)]
    /\ main' = [main EXCEPT !.todo = Tail(@)]
    /\ UNCHANGED <<pc, w, ranges, out_dir, dedup_vars, db_vars>>

\* the old writer is dropped: the chunk loop goes on (main.rs 239-242), or
\* write_bak_files returns (main.rs 263), with an error (main.rs 238) or by panic
PipeDropped ==
    /\ pc = "write_bak_files" /\ main.step = "drop" /\ main.todo = <<>>
    /\ main' = IF main.after = "copy" THEN [MainIdle EXCEPT !.step = "copy"] ELSE MainIdle
    /\ w' = IF main.after = "return" THEN flush_last(w)
            ELSE IF main.after = "panic" THEN [w EXCEPT !.at = "panic"]
            ELSE w
    /\ pc' = IF main.after = "return" THEN "index_db"
             ELSE IF main.after = "copy" THEN pc
             ELSE main.after
    /\ UNCHANGED <<bak_io, ranges, out_dir, dedup_vars, db_vars>>

\* main.rs 242-244: io::copy writes the next byte of the chunk to bak_output; the
\* write blocks while the pipe to the filter is full
PipeCopy ==
    /\ pc = "write_bak_files" /\ main.step = "copy"
    /\ main.copied < ChunkRange.size
    /\ ~write_blocks(bak_io[Current])
    /\ \E spill \in BOOLEAN :
          bak_io' = [bak_io EXCEPT ![Current] =
                        write(@, ChunkContent[w.pos + main.copied + 1], spill)]
    /\ main' = [main EXCEPT !.copied = @ + 1]
    /\ UNCHANGED <<pc, w, ranges, out_dir, dedup_vars, db_vars>>

\* main.rs 245-257: the chunk is copied; its ChunkInfo is pushed
PipeRecordChunk ==
    /\ pc = "write_bak_files" /\ main.step = "copy"
    /\ main.copied = ChunkRange.size
    /\ w' = write_chunk(w, files_to_backup)
    /\ pc' = IF w'.at = "panic" THEN "panic" ELSE pc
    /\ main' = MainIdle
    /\ UNCHANGED <<bak_io, ranges, out_dir, dedup_vars, db_vars>>

\* main.rs 260-263: the last flush; returning drops bak_output
PipeFlushLast ==
    /\ pc = "write_bak_files" /\ w.at = "file" /\ w.i = Len(files_to_backup)
    /\ main.step = "idle"
    /\ bak_io' = [bak_io EXCEPT ![Current] = flush(@)]
    /\ main' = [MainIdle EXCEPT !.step = "drop", !.after = "return",
                                !.todo = drop_steps(bak_io[Current].filtered)]
    /\ UNCHANGED <<pc, w, ranges, out_dir, dedup_vars, db_vars>>

\* the filter of bak n - 1 copies a byte
FilterCopy(n) ==
    /\ bak_io[n].child = "running"
    /\ bak_io[n].pin # <<>>
    /\ ~filter_blocks(bak_io[n])
    /\ bak_io' = [bak_io EXCEPT ![n] = filter_copy(@)]
    /\ UNCHANGED <<pc, w, main, ranges, out_dir, dedup_vars, db_vars>>

\* the filter of bak n - 1 reads EOF and exits
FilterExit(n) ==
    /\ bak_io[n].child = "running"
    /\ bak_io[n].pin = <<>> /\ bak_io[n].stdin = "closed"
    /\ bak_io' = [bak_io EXCEPT ![n] = filter_exit(@, args.backup_output_filter)]
    /\ UNCHANGED <<pc, w, main, ranges, out_dir, dedup_vars, db_vars>>

\* lib.rs 359-362: the copy thread of bak n - 1 copies a byte
DrainCopy(n) ==
    /\ bak_io[n].drain = "running"
    /\ bak_io[n].pout # <<>>
    /\ \E spill \in BOOLEAN : bak_io' = [bak_io EXCEPT ![n] = drain_copy(@, spill)]
    /\ UNCHANGED <<pc, w, main, ranges, out_dir, dedup_vars, db_vars>>

\* lib.rs 359-362: the copy thread of bak n - 1 reads EOF and ends
DrainExit(n) ==
    /\ bak_io[n].drain = "running"
    /\ bak_io[n].pout = <<>> /\ bak_io[n].child = "exited"
    /\ bak_io' = [bak_io EXCEPT ![n] = drain_exit(@)]
    /\ UNCHANGED <<pc, w, main, ranges, out_dir, dedup_vars, db_vars>>

\* the steps of the main thread inside write_bak_files
MainNext ==
    \/ PipeOpenBak0
    \/ BeginFile
    \/ PipeRotationTest
    \/ PipeFlush
    \/ PipeCreateBak
    \/ PipeCloseProgramIn
    \/ PipeWaitForOutputStream
    \/ PipeDropBufWriter
    \/ PipeDropped
    \/ PipeCopy
    \/ PipeRecordChunk
    \/ PipeFlushLast

FilterNext == \E n \in DOMAIN bak_io : FilterCopy(n) \/ FilterExit(n)

DrainNext == \E n \in DOMAIN bak_io : DrainCopy(n) \/ DrainExit(n)

PipeNext ==
    \/ InitialDedup
    \/ MetadataTier
    \/ HashTier
    \/ MainNext
    \/ FilterNext
    \/ DrainNext
    \/ InitialIndexDb
    \/ DiffIndexDb
    \/ DiffAsserts
    \/ IndexDbFails
    \/ CopyIndexDb

SpecPipe == InitPipe /\ [][PipeNext]_vars

\* the threads and the filter processes are scheduled fairly
SpecPipeFair ==
    SpecPipe /\ WF_vars(MainNext) /\ WF_vars(FilterNext) /\ WF_vars(DrainNext)

----------------------------------------------------------------------------
(* C11, C12, C13, C16, C18: the order of the pack writer's steps *)

\* the writer of bak n - 1 is closed: flushed, its file closed, and with a
\* filter its stdin closed and its copy thread joined
Closed(n) ==
    /\ bak_io[n].buf = <<>>
    /\ ~bak_io[n].file_open
    /\ bak_io[n].filtered =>
          bak_io[n].stdin # "open" /\ bak_io[n].drain \in {"joined", "none"}

OpenFiles == {n \in DOMAIN bak_io : bak_io[n].file_open}
LiveFilters == {n \in DOMAIN bak_io : bak_io[n].child = "running"}
LiveDrains == {n \in DOMAIN bak_io : bak_io[n].drain = "running"}

\* C11: when bak n+1 exists the writer of bak n has been flushed, its filter's
\* stdin closed and its drain joined; never are two bak files open nor two
\* filters or two drain threads alive
C11_RotationOrder ==
    /\ \A n \in DOMAIN bak_io : n < Len(bak_io) => Closed(n)
    /\ Cardinality(OpenFiles) <= 1
    /\ Cardinality(LiveFilters) <= 1
    /\ Cardinality(LiveDrains) <= 1

\* the bytes handed to the writer of bak n - 1 that are on their way: in the
\* file, in the BufWriter, in the stdout pipe and in the stdin pipe of the filter
Pipeline(n) == bak_io[n].file \o bak_io[n].buf \o bak_io[n].pout \o bak_io[n].pin

\* C12: before bak n+1 is handed its first byte, every byte handed to the
\* writer of bak n is in the file bak n and bak n's drain thread is joined; the
\* bytes of a bak keep the order in which they were handed to the writer
C12_RotationBarrier ==
    /\ \A n \in DOMAIN bak_io :
          (n < Len(bak_io) /\ bak_io[n + 1].sent # <<>>) =>
              /\ bak_io[n].sent = w.baks[n]
              /\ bak_io[n].file = bak_io[n].sent
              /\ bak_io[n].filtered => bak_io[n].drain = "joined"
    /\ \A n \in DOMAIN bak_io : Pipeline(n) = bak_io[n].sent

\* after a rotation with a filter, the first byte of the next bak is in the pipe
\* to its filter and the previous bak holds several bytes
C12_Witness ==
    /\ Len(bak_io) >= 2
    /\ bak_io[2].filtered
    /\ bak_io[2].pin # <<>>
    /\ Len(bak_io[1].file) >= 2

\* C13: when the transaction is committed every bak writer is flushed and
\* closed and every drain thread is joined; the file rows and chunk rows are
\* all inserted by the transaction that is committed
C13_CommitAfterClose ==
    /\ committed =>
          /\ \A n \in DOMAIN bak_io :
                /\ Closed(n)
                /\ bak_io[n].file = bak_io[n].sent
                /\ bak_io[n].drain \notin {"running", "finished"}
          /\ w.at = "returned"
          /\ Len(db_index) = Len(files)
          /\ Len(db_chunk) = Len(Placements)
    /\ ~committed => db_index = <<>> /\ db_chunk = <<>>

\* a committed differential run that wrote two bak files through a filter
C13_Witness ==
    /\ committed
    /\ mode = "differential"
    /\ Len(bak_io) >= 2
    /\ \A n \in DOMAIN bak_io : bak_io[n].filtered /\ bak_io[n].file # <<>>

\* C16: a run does not complete while a filter has exited with a nonzero
\* status that the run has not collected and reported; a run in which a filter
\* could not be spawned never completes
C16_FilterFailureReported ==
    /\ pc = "done" =>
          \A n \in DOMAIN bak_io : bak_io[n].exit_status = "1" => bak_io[n].waited
    /\ (\E n \in DOMAIN bak_io : bak_io[n] = failed_bak_output) =>
          /\ pc \in {"write_bak_files", "error"}
          /\ ~committed

\* the bak files on disk, bak0 first
BakFiles == [n \in DOMAIN bak_io |-> bak_io[n].file]

\* C18: a run through the identity filter `cat` and a run without a filter
\* leave the same bak files, byte for byte, and the same chunk rows: those that
\* write_bak_files computes from the files to back up, the chunk size and the cap
C18_IdentityFilter ==
    (w.at = "returned" /\ args.backup_output_filter \in {"None", "cat"}) =>
        LET plain == write_bak_files(files_to_backup)
        IN  /\ BakFiles = plain.baks
            /\ w.split_info_list = plain.split_info_list
            /\ committed =>
                  db_chunk = insert_file_split_info(<<>>, plain.split_info_list)

\* a finished run through `cat` that wrote two bak files
C18_Witness ==
    /\ pc = "done"
    /\ args.backup_output_filter = "cat"
    /\ Len(BakFiles) >= 2
    /\ BakFiles[2] # <<>>

----------------------------------------------------------------------------
(* C20: liveness of the write path *)

\* C20: under fair scheduling of the main thread, the filter and the copy
\* thread, every drop of a writer (at a rotation and at the final close)
\* completes, its join included, and write_bak_files returns
C20_WritePathLive ==
    /\ (main.step = "drop") ~> (main.step # "drop")
    /\ (pc = "write_bak_files") ~> (pc # "write_bak_files")

\* the main thread waits in join() while bytes of the bak are still in the
\* pipe to the filter
C20_Witness ==
    /\ main.step = "drop"
    /\ main.todo # <<>> /\ Head(main.todo) = "wait_for_output_stream"
    /\ bak_io[Dropping].pin # <<>>
    /\ bak_io[Dropping].drain = "running"

----------------------------------------------------------------------------
(* C21: each content is packed once *)

\* C21: no two files handed to write_bak_files have the same file hash, and
\* the chunk rows of a file hash are the chunks of one file of that content,
\* not of several
C21_PackedAtMostOnce ==
    /\ \A a, b \in DOMAIN files_to_backup :
          a # b => files_to_backup[a][1] # files_to_backup[b][1]
    /\ \A a, b \in DOMAIN w.split_info_list :
          a # b => w.split_info_list[a].file_hash # w.split_info_list[b].file_hash
    /\ \A k \in DOMAIN db_chunk :
          \A e \in Range(files) :
              compute_file_hash(disk[e.path]) = db_chunk[k].file_hash =>
                  SumSeq(SizesOf(SelectSeq(db_chunk,
                      LAMBDA r : r.file_hash = db_chunk[k].file_hash))) = e.size

----------------------------------------------------------------------------
(* C22: index.db in the output directory *)

\* C22: index.db is in the output directory only when the index transaction is
\* committed, write_bak_files has returned and every bak writer is flushed and
\* closed; a run that failed before the copy leaves no index.db there
C22_IndexDbAfterCommit ==
    /\ "index.db" \in out_dir =>
          /\ committed
          /\ w.at = "returned"
          /\ \A n \in DOMAIN bak_io : Closed(n) /\ bak_io[n].file = bak_io[n].sent
          /\ Len(db_index) = Len(files)
    /\ (pc = "panic" \/ (pc = "error" /\ ~committed) \/ AssertFailed) =>
          "index.db" \notin out_dir

\* a differential run through a filter that wrote two bak files has exited
\* with index.db in the output directory
C22_Witness ==
    /\ pc = "exit"
    /\ "index.db" \in out_dir
    /\ mode = "differential"
    /\ Len(bak_io) >= 2
    /\ bak_io[2].filtered /\ bak_io[2].file # <<>>

====
